---- MODULE Spec2Model ----
(***************************************************************************)
(* The NYC taxi ETL job of src/jobs/etl/nyc_taxi_etl.py: main() reads raw  *)
(* CSV rows, parses the two timestamps, filters bad rows, derives          *)
(* trip_date / pickup_hour / is_weekend, aggregates per trip_date and      *)
(* writes the aggregate with mode("overwrite") to BigQuery or to Parquet.  *)
(*                                                                         *)
(* A DataFrame is an unordered collection of rows with duplicates, so it   *)
(* is a bag of rows; only the result of orderBy is a sequence.  A column   *)
(* value is <<>> (SQL NULL) or <<v>>.  Strings the job looks into (the     *)
(* timestamp text, trip_date) are sequences of one-character strings.      *)
(* Money and durations are exact: fare_amount is an integer, and a value   *)
(* divided by the job (trip_minutes, the averages) is a reduced fraction.  *)
(***************************************************************************)
EXTENDS Integers, Sequences, FiniteSets, Bags, TLC

\* ------------------------------------------------------------- bounds
MaxRecords == 3
MaxRunRecords == 1
MaxRuns == 2
NumPartitions == 2

\* ------------------------------------------------------------- SQL values
Null == <<>>
Val(v) == <<v>>
IsNull(c) == c = Null
Get(c) == c[1]

RECURSIVE Gcd(_, _)
Gcd(a, b) == IF b = 0 THEN a ELSE Gcd(b, a % b)

Abs(n) == IF n < 0 THEN -n ELSE n

\* n / d as a reduced fraction with a positive denominator.
Frac(n, d) ==
  LET g == Gcd(Abs(n), Abs(d))
      s == IF d < 0 THEN -1 ELSE 1
  IN  [num |-> (s * n) \div g, den |-> (s * d) \div g]

\* SQL comparisons: NULL when the operand is NULL, else the truth value.
IntGt(c, n) == IF IsNull(c) THEN Null ELSE Val(Get(c) > n)
FracGt(c, n) == IF IsNull(c) THEN Null ELSE Val(Get(c).num > n * Get(c).den)
FracLt(c, n) == IF IsNull(c) THEN Null ELSE Val(Get(c).num < n * Get(c).den)

\* DataFrame.filter keeps a row only when the condition is TRUE (not NULL).
Keeps(cond) == cond = Val(TRUE)

\* ------------------------------------------------------------- characters
Digits == <<"0", "1", "2", "3", "4", "5", "6", "7", "8", "9">>
IsDigit(c) == \E i \in 1..10 : Digits[i] = c
DigitVal(c) == (CHOOSE i \in 1..10 : Digits[i] = c) - 1
DigitChar(n) == Digits[n + 1]

\* The order of the characters a trip_date holds: '-' sorts before the digits.
CharCode(c) == IF c = "-" THEN 45 ELSE 48 + DigitVal(c)

Num2(s, i) == DigitVal(s[i]) * 10 + DigitVal(s[i + 1])
Num4(s, i) == Num2(s, i) * 100 + Num2(s, i + 2)
Pad2(n) == <<DigitChar(n \div 10), DigitChar(n % 10)>>
Pad4(n) == Pad2(n \div 100) \o Pad2(n % 100)

\* ------------------------------------------------------------- calendar
IsLeap(y) == (y % 4 = 0 /\ y % 100 # 0) \/ y % 400 = 0

DaysInMonth(y, m) ==
  IF m = 2 THEN (IF IsLeap(y) THEN 29 ELSE 28)
  ELSE IF m \in {4, 6, 9, 11} THEN 30 ELSE 31

\* Days from 1970-01-01 to the proleptic Gregorian date y-m-d.
DaysFromCivil(y, m, d) ==
  LET yy  == IF m <= 2 THEN y - 1 ELSE y
      era == yy \div 400
      yoe == yy - era * 400
      mp  == IF m > 2 THEN m - 3 ELSE m + 9
      doy == (153 * mp + 2) \div 5 + d - 1
      doe == yoe * 365 + yoe \div 4 - yoe \div 100 + doy
  IN  era * 146097 + doe - 719468

\* The date <<y, m, d>> that lies z days after 1970-01-01.
CivilFromDays(z) ==
  LET zz  == z + 719468
      era == zz \div 146097
      doe == zz - era * 146097
      yoe == (doe - doe \div 1460 + doe \div 36524 - doe \div 146096) \div 365
      doy == doe - (365 * yoe + yoe \div 4 - yoe \div 100)
      mp  == (5 * doy + 2) \div 153
      d   == doy - (153 * mp + 2) \div 5 + 1
      m   == IF mp < 10 THEN mp + 3 ELSE mp - 9
      y   == yoe + era * 400 + (IF m <= 2 THEN 1 ELSE 0)
  IN  <<y, m, d>>

\* ISO day of the week of epoch day z: 1 = Monday .. 7 = Sunday.
DayOfWeek(z) == ((z + 3) % 7) + 1

\* ------------------------------------------------------------- fractions
FracAdd(a, b) == Frac(a.num * b.den + b.num * a.den, a.den * b.den)
FracScale(a, n) == Frac(a.num * n, a.den)
FracDiv(a, n) == Frac(a.num, a.den * n)

\* ------------------------------------------------------------- timestamps
\* "yyyy-MM-dd HH:mm:ss": the text form of the timestamps in the raw files.
WellFormed(s) ==
  /\ Len(s) = 19
  /\ \A i \in 1..19 :
       IF i \in {5, 8} THEN s[i] = "-"
       ELSE IF i = 11 THEN s[i] = " "
       ELSE IF i \in {14, 17} THEN s[i] = ":"
       ELSE IsDigit(s[i])

\* The instant a timestamp text denotes, NULL when it does not parse (no
\* exception is raised).  An instant is the epoch day and the second of that day.
ParseTimestamp(s) ==
  IF ~WellFormed(s) THEN Null
  ELSE LET y  == Num4(s, 1)
           m  == Num2(s, 6)
           d  == Num2(s, 9)
           hh == Num2(s, 12)
           mi == Num2(s, 15)
           ss == Num2(s, 18)
       IN IF /\ y >= 1 /\ m \in 1..12 /\ d >= 1 /\ d <= DaysInMonth(y, m)
             /\ hh <= 23 /\ mi <= 59 /\ ss <= 59
          THEN Val([day |-> DaysFromCivil(y, m, d),
                    sod |-> hh * 3600 + mi * 60 + ss])
          ELSE Null

\* A conversion that answers the epoch, not NULL, for text that does not parse.
ToTimestampOrEpoch(c) ==
  IF IsNull(c) THEN Null
  ELSE IF IsNull(ParseTimestamp(Get(c))) THEN Val([day |-> 0, sod |-> 0])
  ELSE ParseTimestamp(Get(c))

\* to_timestamp(column): NULL for NULL and for text that does not parse.
ToTimestamp(c) == IF IsNull(c) THEN Null ELSE ParseTimestamp(Get(c))

\* unix_timestamp(b) - unix_timestamp(a), NULL when either is NULL.  The
\* difference is taken on the day and second parts separately, because the
\* epoch second of a far-future instant does not fit a 32-bit integer.
UnixTimestampDiff(b, a) ==
  IF IsNull(a) \/ IsNull(b) THEN Null
  ELSE Val((Get(b).day - Get(a).day) * 86400 + (Get(b).sod - Get(a).sod))

\* (unix_timestamp(dropoff) - unix_timestamp(pickup)) / 60.0
TripMinutes(pickup, dropoff) ==
  LET secs == UnixTimestampDiff(dropoff, pickup)
  IN  IF IsNull(secs) THEN Null ELSE Val(Frac(Get(secs), 60))

\* date_format(ts, "yyyy-MM-dd")
DateFormat(ts) ==
  IF IsNull(ts) THEN Null
  ELSE LET c == CivilFromDays(Get(ts).day)
       IN  Val(Pad4(c[1]) \o <<"-">> \o Pad2(c[2]) \o <<"-">> \o Pad2(c[3]))

\* hour(ts)
Hour(ts) == IF IsNull(ts) THEN Null ELSE Val(Get(ts).sod \div 3600)

\* column.substr(pos, len), 1-based
Substr(c, pos, len) ==
  IF IsNull(c) THEN Null ELSE Val(SubSeq(Get(c), pos, pos + len - 1))

\* column.isin(values)
IsIn(c, values) == IF IsNull(c) THEN Null ELSE Val(Get(c) \in values)

\* when(cond, a).otherwise(b): a when cond is TRUE, b when FALSE or NULL
WhenOtherwise(cond, a, b) == IF cond = Val(TRUE) THEN a ELSE b

\* ------------------------------------------------------------- transform
\* The first three withColumn calls: both timestamps parsed, trip_minutes added.
ParseRow(r) ==
  LET pickup  == ToTimestamp(r.tpep_pickup_datetime)
      dropoff == ToTimestamp(r.tpep_dropoff_datetime)
  IN  [tpep_pickup_datetime  |-> pickup,
       tpep_dropoff_datetime |-> dropoff,
       fare_amount     |-> r.fare_amount,
       trip_distance   |-> r.trip_distance,
       passenger_count |-> r.passenger_count,
       trip_minutes    |-> TripMinutes(pickup, dropoff)]

\* The five filters.
FareFilter(r) == Keeps(IntGt(r.fare_amount, 0))
MinDurationFilter(r) == Keeps(FracGt(r.trip_minutes, 0))
MaxDurationFilterInclusive(r) ==
  ~IsNull(r.trip_minutes) /\ Get(r.trip_minutes).num <= 180 * Get(r.trip_minutes).den
MaxDurationFilter(r) == Keeps(FracLt(r.trip_minutes, 180))
PassengerNotNullFilter(r) == Keeps(Val(~IsNull(r.passenger_count)))
PassengerFilter(r) == Keeps(IntGt(r.passenger_count, 0))

FilterBad(r) ==
  /\ FareFilter(r)
  /\ MinDurationFilter(r)
  /\ MaxDurationFilter(r)
  /\ PassengerNotNullFilter(r)
  /\ PassengerFilter(r)

WeekendChars == {<<"6">>, <<"7">>}

\* The flag as the day of the week of trip_date would give it.
IsWeekendByDayOfWeek(trip_date) ==
  IF IsNull(trip_date) THEN Val(0)
  ELSE LET s == Get(trip_date)
           z == DaysFromCivil(Num4(s, 1), Num2(s, 6), Num2(s, 9))
       IN  IF DayOfWeek(z) \in {6, 7} THEN Val(1) ELSE Val(0)

IsWeekend(trip_date) ==
  WhenOtherwise(IsIn(Substr(trip_date, 1, 1), WeekendChars), Val(1), Val(0))

\* The three feature columns.
AddFeatures(r) ==
  LET trip_date == DateFormat(r.tpep_pickup_datetime)
  IN  [tpep_pickup_datetime  |-> r.tpep_pickup_datetime,
       tpep_dropoff_datetime |-> r.tpep_dropoff_datetime,
       fare_amount     |-> r.fare_amount,
       trip_distance   |-> r.trip_distance,
       passenger_count |-> r.passenger_count,
       trip_minutes    |-> r.trip_minutes,
       trip_date       |-> trip_date,
       pickup_hour     |-> Hour(r.tpep_pickup_datetime),
       is_weekend      |-> IsWeekend(trip_date)]

\* The five filters applied to a frame: DataFrame.filter on a bag of rows.
FilterFrame(B) ==
  LET kept == {r \in BagToSet(B) : FilterBad(r)}
  IN  IF kept = {} THEN EmptyBag ELSE [r \in kept |-> B[r]]

\* df_clean as a function of df.
CleanFrame(B) == BagOfAll(AddFeatures, FilterFrame(BagOfAll(ParseRow, B)))

\* ------------------------------------------------------------- aggregate
\* The value avg() sums for a row: the column as a fraction, NULL kept.
NumCol(r, c) ==
  IF c = "trip_minutes" THEN r[c]
  ELSE IF IsNull(r[c]) THEN Null ELSE Val(Frac(Get(r[c]), 1))

ZeroBuffer == [sum |-> Frac(0, 1), count |-> 0]

\* avg(c)'s partial buffer over the rows S of bag B: the sum and the number of
\* the non-NULL values.
RECURSIVE PartialAvg(_, _, _)
PartialAvg(B, S, c) ==
  IF S = {} THEN ZeroBuffer
  ELSE LET r    == CHOOSE x \in S : TRUE
           rest == PartialAvg(B, S \ {r}, c)
           v    == NumCol(r, c)
       IN  IF IsNull(v) THEN rest
           ELSE [sum   |-> FracAdd(rest.sum, FracScale(Get(v), B[r])),
                 count |-> rest.count + B[r]]

\* count(DISTINCT *): a row counted once however often it occurs.
PartialCountDistinct(B, S) == Cardinality(S)

\* count(*)'s partial buffer over the rows S of bag B.
RECURSIVE PartialCount(_, _)
PartialCount(B, S) ==
  IF S = {} THEN 0
  ELSE LET r == CHOOSE x \in S : TRUE IN B[r] + PartialCount(B, S \ {r})

\* The rows of one partition that fall in the group of key k.
GroupRows(B, k) == {r \in BagToSet(B) : r.trip_date = k}

\* One partition's buffers for the group of key k.
PartialBuffers(B, k) ==
  LET S == GroupRows(B, k)
  IN  [fare       |-> PartialAvg(B, S, "fare_amount"),
       minutes    |-> PartialAvg(B, S, "trip_minutes"),
       distance   |-> PartialAvg(B, S, "trip_distance"),
       passengers |-> PartialAvg(B, S, "passenger_count"),
       rows       |-> PartialCount(B, S)]

\* The partial means averaged instead of the sums and counts added.
MergeMeans(a, b) ==
  IF a.count = 0 THEN b
  ELSE IF b.count = 0 THEN a
  ELSE [sum   |-> FracAdd(FracDiv(a.sum, a.count), FracDiv(b.sum, b.count)),
        count |-> 2]

MergeAvg(a, b) == [sum |-> FracAdd(a.sum, b.sum), count |-> a.count + b.count]

MergeBuffers(a, b) ==
  [fare       |-> MergeAvg(a.fare, b.fare),
   minutes    |-> MergeAvg(a.minutes, b.minutes),
   distance   |-> MergeAvg(a.distance, b.distance),
   passengers |-> MergeAvg(a.passengers, b.passengers),
   rows       |-> a.rows + b.rows]

\* The buffers of the partitions parts[1..n] merged after the shuffle.
RECURSIVE MergedBuffers(_, _, _)
MergedBuffers(parts, n, k) ==
  IF n = 1 THEN PartialBuffers(parts[1], k)
  ELSE MergeBuffers(MergedBuffers(parts, n - 1, k), PartialBuffers(parts[n], k))

\* avg()'s result: the mean of the non-NULL values, NULL when there is none.
EvalAvg(buf) == IF buf.count = 0 THEN Null ELSE Val(FracDiv(buf.sum, buf.count))

\* The row of groupBy("trip_date").agg(...) for key k.
AggRow(parts, k) ==
  LET m == MergedBuffers(parts, Len(parts), k)
  IN  [trip_date            |-> k,
       avg_fare             |-> EvalAvg(m.fare),
       avg_duration_minutes |-> EvalAvg(m.minutes),
       avg_distance         |-> EvalAvg(m.distance),
       trip_count           |-> m.rows,
       avg_passengers       |-> EvalAvg(m.passengers)]

\* The group keys of a frame held in the partitions parts.
GroupKeys(parts) ==
  UNION {{r.trip_date : r \in BagToSet(parts[i])} : i \in 1..Len(parts)}

GroupByAgg(parts) == {AggRow(parts, k) : k \in GroupKeys(parts)}

\* String order by character code; a proper prefix sorts first.
RECURSIVE StrLess(_, _)
StrLess(a, b) ==
  IF b = <<>> THEN FALSE
  ELSE IF a = <<>> THEN TRUE
  ELSE IF Head(a) = Head(b) THEN StrLess(Tail(a), Tail(b))
  ELSE CharCode(Head(a)) < CharCode(Head(b))

\* Column order: NULL is the smallest value.
ColLess(a, b) ==
  IF IsNull(b) THEN FALSE
  ELSE IF IsNull(a) THEN TRUE
  ELSE StrLess(Get(a), Get(b))

\* orderBy(col("trip_date")): ascending.
RECURSIVE OrderByAsc(_)
OrderByAsc(S) ==
  IF S = {} THEN <<>>
  ELSE LET low == CHOOSE r \in S : \A q \in S : ~ColLess(q.trip_date, r.trip_date)
       IN  <<low>> \o OrderByAsc(S \ {low})

\* orderBy(col("trip_date").desc())
RECURSIVE OrderByDesc(_)
OrderByDesc(S) ==
  IF S = {} THEN <<>>
  ELSE LET top == CHOOSE r \in S : \A q \in S : ~ColLess(r.trip_date, q.trip_date)
       IN  <<top>> \o OrderByDesc(S \ {top})

\* The ways a frame can lie in n partitions when it is aggregated.
RECURSIVE Splits(_, _)
Splits(B, n) ==
  IF n = 1 THEN {<<B>>}
  ELSE UNION {{<<b>> \o rest : rest \in Splits(B (-) b, n - 1)} : b \in SubBag(B)}

Range(s) == {s[i] : i \in 1..Len(s)}

\* ------------------------------------------------------------- inputs
TsText(y, m, d, hh, mi, ss) ==
  Val(Pad4(y) \o <<"-">> \o Pad2(m) \o <<"-">> \o Pad2(d) \o <<" ">>
      \o Pad2(hh) \o <<":">> \o Pad2(mi) \o <<":">> \o Pad2(ss))

GarbageText == Val(<<"n", "/", "a">>)
BadMonthText == TsText(2024, 13, 1, 10, 0, 0)

RawRow(pickup, dropoff, fare, distance, passengers) ==
  [tpep_pickup_datetime  |-> pickup,
   tpep_dropoff_datetime |-> dropoff,
   fare_amount     |-> fare,
   trip_distance   |-> distance,
   passenger_count |-> passengers]

\* The raw rows the input files are made of: good trips on a Saturday, on a
\* Monday (three fares, one trip ending after midnight) and in the year 6024,
\* and one row for each way a row can be bad.
Pool ==
  << RawRow(TsText(2024, 1, 6, 12, 0, 0), TsText(2024, 1, 6, 12, 20, 0), Val(15), Val(3), Val(3)),
     RawRow(TsText(2024, 1, 1, 10, 0, 0), TsText(2024, 1, 1, 10, 15, 0), Val(10), Val(2), Val(1)),
     RawRow(TsText(6024, 3, 5, 9, 0, 0), TsText(6024, 3, 5, 9, 40, 0), Val(12), Val(5), Val(2)),
     RawRow(TsText(2024, 1, 1, 23, 50, 0), TsText(2024, 1, 2, 0, 10, 0), Val(20), Null, Val(2)),
     RawRow(TsText(2024, 1, 1, 8, 0, 0), TsText(2024, 1, 1, 8, 30, 0), Val(30), Val(4), Val(1)),
     RawRow(GarbageText, TsText(2024, 1, 1, 10, 15, 0), Val(10), Val(2), Val(1)),
     RawRow(TsText(2024, 1, 1, 10, 0, 0), BadMonthText, Val(10), Val(2), Val(1)),
     RawRow(TsText(2024, 1, 1, 10, 0, 0), TsText(2024, 1, 1, 10, 15, 0), Val(0), Val(2), Val(1)),
     RawRow(TsText(2024, 1, 1, 10, 0, 0), TsText(2024, 1, 1, 10, 15, 0), Val(10), Val(2), Val(0)),
     RawRow(TsText(2024, 1, 1, 10, 0, 0), TsText(2024, 1, 1, 10, 15, 0), Val(10), Val(2), Null),
     RawRow(TsText(2024, 1, 1, 10, 0, 0), TsText(2024, 1, 1, 13, 0, 0), Val(10), Val(2), Val(1)),
     RawRow(TsText(2024, 1, 1, 10, 0, 0), TsText(2024, 1, 1, 10, 0, 0), Val(10), Val(2), Val(1)) >>

\* The contents an input location can have: up to MaxRecords rows of the pool.
IndexSeqs ==
  UNION {{s \in [1..n -> 1..Len(Pool)] : \A i \in 1..(n - 1) : s[i] <= s[i + 1]}
         : n \in 0..MaxRecords}

BagOf(s) ==
  IF s = <<>> THEN EmptyBag
  ELSE [r \in {Pool[s[i]] : i \in DOMAIN s}
          |-> Cardinality({i \in DOMAIN s : Pool[s[i]] = r})]

InputBags == {BagOf(s) : s \in IndexSeqs}

\* An input location: no file matches it, or its files hold these rows.
Sources ==
  {[exists |-> FALSE, rows |-> EmptyBag]}
    \cup {[exists |-> TRUE, rows |-> b] : b \in InputBags}

\* The command lines parse_args accepts (input_path and output_path are the
\* locations named by source and dest.gcs).
ArgSets ==
  [output_mode : {"gcs", "bigquery"},
   bq_table    : {Null, Val(""), Val("proj.ds.daily")}]

\* Output left at a destination by an earlier job.
StaleRow ==
  [trip_date            |-> Val(Pad4(2023) \o <<"-">> \o Pad2(12) \o <<"-">> \o Pad2(31)),
   avg_fare             |-> Val(Frac(7, 1)),
   avg_duration_minutes |-> Val(Frac(9, 1)),
   avg_distance         |-> Null,
   trip_count           |-> 1,
   avg_passengers       |-> Val(Frac(1, 1))]

Destinations ==
  {[gcs |-> {}, bigquery |-> {}], [gcs |-> {StaleRow}, bigquery |-> {StaleRow}]}

\* ------------------------------------------------------------- the job
VARIABLES
  args,        \* the parsed command line
  source,      \* what input_path holds
  dest,        \* what output_path (gcs) and the table (bigquery) hold
  pc,          \* where main() is
  spark,       \* the session: "none", "active", "stopped"
  df,          \* the raw frame
  df_clean,    \* the cleaned and enriched frame
  agg_df,      \* the ordered daily aggregate
  io,          \* whether this run has read the input / written a destination
  destBefore,  \* dest when this run started
  run,         \* the number of this run
  prevOk       \* whether the run before this one completed

vars == <<args, source, dest, pc, spark, df, df_clean, agg_df, io, destBefore, run, prevOk>>

\* Python truthiness of args.bq_table.
Truthy(t) == ~IsNull(t) /\ Get(t) # ""

\* The condition of the LOAD branch.
UseBigQuery == args.output_mode = "bigquery" /\ Truthy(args.bq_table)

\* The command line with every option at its default, and empty destinations.
DefaultArgs == [output_mode |-> "gcs", bq_table |-> Null]
EmptyDestinations == [gcs |-> {}, bigquery |-> {}]

\* Inputs of up to MaxRecords rows run with the default command line into
\* empty destinations; inputs of up to MaxRunRecords rows run with every
\* command line into every destination.
Init ==
  /\ args \in ArgSets
  /\ source \in Sources
  /\ dest \in Destinations
  /\ \/ BagCardinality(source.rows) <= MaxRunRecords
     \/ args = DefaultArgs /\ dest = EmptyDestinations
  /\ pc = "start"
  /\ spark = "none"
  /\ df = EmptyBag
  /\ df_clean = EmptyBag
  /\ agg_df = <<>>
  /\ io = [read |-> FALSE, wrote |-> FALSE]
  /\ destBefore = dest
  /\ run = 1
  /\ prevOk = FALSE

\* parse_args, logging set-up and SparkSession...getOrCreate().
Start ==
  /\ pc = "start"
  /\ spark' = "active"
  /\ pc' = "read"
  /\ UNCHANGED <<args, source, dest, df, df_clean, agg_df, io, destBefore, run, prevOk>>

\* spark.read...csv(input_path) and df.count().
ReadCsv ==
  /\ pc = "read"
  /\ source.exists
  /\ df' = source.rows
  /\ io' = [io EXCEPT !.read = TRUE]
  /\ pc' = "transform"
  /\ UNCHANGED <<args, source, dest, spark, df_clean, agg_df, destBefore, run, prevOk>>

\* The read raises when no file matches input_path; the exception leaves main().
ReadFail ==
  /\ pc = "read"
  /\ ~source.exists
  /\ io' = [io EXCEPT !.read = TRUE]
  /\ pc' = "failed"
  /\ UNCHANGED <<args, source, dest, spark, df, df_clean, agg_df, destBefore, run, prevOk>>

\* df_clean and df_clean.count().
Transform ==
  /\ pc = "transform"
  /\ df_clean' = CleanFrame(df)
  /\ pc' = "aggregate"
  /\ UNCHANGED <<args, source, dest, spark, df, agg_df, io, destBefore, run, prevOk>>

\* agg_df: partial aggregation in each partition, merge, order.
Aggregate ==
  /\ pc = "aggregate"
  /\ \E parts \in Splits(df_clean, NumPartitions) :
       agg_df' = OrderByDesc(GroupByAgg(parts))
  /\ pc' = "write"
  /\ UNCHANGED <<args, source, dest, spark, df, df_clean, io, destBefore, run, prevOk>>

\* mode("append")
AppendRows(old, rows) == old \cup rows

\* mode("overwrite"): what a destination holds after rows are saved over old.
Overwrite(old, rows) == rows

\* agg_df.write.format("bigquery").option("table", ...).mode("overwrite").save()
WriteBigQuery ==
  /\ pc = "write"
  /\ UseBigQuery
  /\ dest' = [dest EXCEPT !.bigquery = Overwrite(@, Range(agg_df))]
  /\ io' = [io EXCEPT !.wrote = TRUE]
  /\ pc' = "show"
  /\ UNCHANGED <<args, source, spark, df, df_clean, agg_df, destBefore, run, prevOk>>

\* agg_df.write.mode("overwrite").partitionBy("trip_date").parquet(output_path)
WriteParquet ==
  /\ pc = "write"
  /\ ~UseBigQuery
  /\ dest' = [dest EXCEPT !.gcs = Overwrite(@, Range(agg_df))]
  /\ io' = [io EXCEPT !.wrote = TRUE]
  /\ pc' = "show"
  /\ UNCHANGED <<args, source, spark, df, df_clean, agg_df, destBefore, run, prevOk>>

\* The write raises (destination not writable); the exception leaves main().
\* The table is replaced by one load job, so a failed save leaves it as it
\* was.  The Parquet writer deletes the old files before it writes the new
\* ones, so a failed write leaves the old content or nothing.
WriteFail ==
  /\ pc = "write"
  /\ IF UseBigQuery
       THEN dest' = dest
       ELSE \E left \in {dest.gcs, {}} : dest' = [dest EXCEPT !.gcs = left]
  /\ pc' = "failed"
  /\ UNCHANGED <<args, source, spark, df, df_clean, agg_df, io, destBefore, run, prevOk>>

\* agg_df.show(10), spark.stop() and the last log line.
ShowAndStop ==
  /\ pc = "show"
  /\ spark' = "stopped"
  /\ pc' = "done"
  /\ UNCHANGED <<args, source, dest, df, df_clean, agg_df, io, destBefore, run, prevOk>>

\* The job is submitted again with the same command line and input.
Rerun ==
  /\ pc \in {"done", "failed"}
  /\ run < MaxRuns
  /\ run' = run + 1
  /\ prevOk' = (pc = "done")
  /\ destBefore' = dest
  /\ pc' = "start"
  /\ spark' = "none"
  /\ df' = EmptyBag
  /\ df_clean' = EmptyBag
  /\ agg_df' = <<>>
  /\ io' = [read |-> FALSE, wrote |-> FALSE]
  /\ UNCHANGED <<args, source, dest>>

Next ==
  \/ Start
  \/ ReadCsv
  \/ ReadFail
  \/ Transform
  \/ Aggregate
  \/ WriteBigQuery
  \/ WriteParquet
  \/ WriteFail
  \/ ShowAndStop
  \/ Rerun

Spec == Init /\ [][Next]_vars

\* ------------------------------------------------------------- properties
\* The run has produced df_clean / agg_df (a run that failed on an input that
\* exists failed in the write).
Transformed ==
  pc \in {"aggregate", "write", "show", "done"} \/ (pc = "failed" /\ source.exists)
Aggregated ==
  pc \in {"write", "show", "done"} \/ (pc = "failed" /\ source.exists)

\* Table mode asked for without a table identifier.
ConfigError == args.output_mode = "bigquery" /\ ~Truthy(args.bq_table)

\* The number of rows of bag B that are in the set S.
RECURSIVE Copies(_, _)
Copies(B, S) ==
  IF S = {} THEN 0
  ELSE LET r == CHOOSE x \in S : TRUE IN B[r] + Copies(B, S \ {r})

\* The enriched row a raw row becomes.
Enriched(r) == AddFeatures(ParseRow(r))

\* Seconds from pickup to dropoff of a raw row; both must parse.
TripSeconds(r) ==
  LET p == Get(ToTimestamp(r.tpep_pickup_datetime))
      d == Get(ToTimestamp(r.tpep_dropoff_datetime))
  IN  (d.day - p.day) * 86400 + (d.sod - p.sod)

\* The validity rules, on a raw row.
ValidRaw(r) ==
  /\ ~IsNull(r.fare_amount) /\ Get(r.fare_amount) > 0
  /\ ~IsNull(ToTimestamp(r.tpep_pickup_datetime))
  /\ ~IsNull(ToTimestamp(r.tpep_dropoff_datetime))
  /\ TripSeconds(r) > 0
  /\ TripSeconds(r) < 180 * 60
  /\ ~IsNull(r.passenger_count) /\ Get(r.passenger_count) > 0

\* C1: a run in bigquery mode without a table identifier fails before the
\* input is read and before anything is written.
C1_FailsBeforeRead == ConfigError => (~io.read /\ ~io.wrote)

\* C2: a raw row is in df_clean iff it passes all five rules, every copy of a
\* surviving row survives, and every row of df_clean has fare_amount > 0,
\* 0 < trip_minutes < 180 and passenger_count > 0.
C2_CleanIffValid ==
  Transformed =>
    /\ \A r \in BagToSet(df) : ValidRaw(r) <=> BagIn(Enriched(r), df_clean)
    /\ \A e \in BagToSet(df_clean) :
         /\ df_clean[e] = Copies(df, {r \in BagToSet(df) : Enriched(r) = e})
         /\ Get(e.fare_amount) > 0
         /\ Get(e.trip_minutes).num > 0
         /\ Get(e.trip_minutes).num < 180 * Get(e.trip_minutes).den
         /\ Get(e.passenger_count) > 0

\* A run whose input holds a good row twice and a row of exactly 180 minutes.
C2_Witness ==
  /\ Transformed
  /\ \E r \in BagToSet(df) : ValidRaw(r) /\ df[r] = 2 /\ df_clean[Enriched(r)] = 2
  /\ \E r \in BagToSet(df) :
       /\ ~IsNull(ParseRow(r).trip_minutes)
       /\ Get(ParseRow(r).trip_minutes) = Frac(180, 1)
       /\ ~BagIn(Enriched(r), df_clean)

\* The dates of the enriched rows, and the enriched rows of one date.
CleanDates == {e.trip_date : e \in BagToSet(df_clean)}
RowsOfDate(k) == {e \in BagToSet(df_clean) : e.trip_date = k}

RECURSIVE SumTripCount(_)
SumTripCount(n) == IF n = 0 THEN 0 ELSE agg_df[n].trip_count + SumTripCount(n - 1)

\* C3: every trip_date of df_clean has exactly one row of agg_df, whose
\* trip_count is the number of df_clean rows of that date (at least 1); agg_df
\* has no row for another date; the trip_counts add up to the size of df_clean.
C3_OneRowPerDate ==
  Aggregated =>
    /\ \A k \in CleanDates :
         /\ Cardinality({i \in 1..Len(agg_df) : agg_df[i].trip_date = k}) = 1
         /\ \A i \in 1..Len(agg_df) :
              agg_df[i].trip_date = k =>
                /\ agg_df[i].trip_count = Copies(df_clean, RowsOfDate(k))
                /\ agg_df[i].trip_count >= 1
    /\ \A i \in 1..Len(agg_df) : agg_df[i].trip_date \in CleanDates
    /\ SumTripCount(Len(agg_df)) = BagCardinality(df_clean)

\* Two dates, one of them with the same row twice.
C3_Witness ==
  /\ Aggregated
  /\ Len(agg_df) = 2
  /\ \E i \in 1..Len(agg_df) :
       agg_df[i].trip_count = 2 /\ Cardinality(RowsOfDate(agg_df[i].trip_date)) = 1

\* C4: a run that ends in a fatal condition (failed read or write, or a
\* configuration error) leaves the destinations as they were.
C4_FailureLeavesDestination ==
  (pc \in {"done", "failed"} /\ (pc = "failed" \/ ConfigError)) => dest = destBefore

\* What the input's daily aggregate is, and where this run writes it.
DailyAggregate == GroupByAgg(<<CleanFrame(source.rows)>>)
Written == IF UseBigQuery THEN dest.bigquery ELSE dest.gcs
NotWritten == IF UseBigQuery THEN dest.gcs ELSE dest.bigquery
NotWrittenBefore == IF UseBigQuery THEN destBefore.gcs ELSE destBefore.bigquery

\* C5: after a successful run the destination holds exactly the daily
\* aggregate of the input, whatever it held before, and a second successful
\* run on the same input leaves the destinations as the first left them.
C5_OverwriteIdempotent ==
  /\ pc \in {"show", "done"} =>
       (Written = DailyAggregate /\ NotWritten = NotWrittenBefore)
  /\ (pc = "done" /\ run > 1 /\ prevOk) => dest = destBefore

\* A second successful run over a destination that first held stale output.
C5_Witness ==
  /\ pc = "done" /\ run = 2 /\ prevOk
  /\ Written # {}
  /\ StaleRow \notin Written
  /\ StaleRow \in NotWritten

\* Timestamp text of the pool that denotes no instant.
Unparsable(c) == IsNull(c) \/ c \in {GarbageText, BadMonthText}
BothParsable(r) ==
  ~Unparsable(r.tpep_pickup_datetime) /\ ~Unparsable(r.tpep_dropoff_datetime)

\* C6: a raw row whose pickup or dropoff text does not parse gets a NULL
\* trip_minutes and is not in df_clean: df_clean has no more rows than the
\* input has rows with both timestamps parsable, and none with a NULL timestamp.
C6_UnparsableDropped ==
  Transformed =>
    /\ \A r \in BagToSet(df) :
         ~BothParsable(r) =>
           (IsNull(ParseRow(r).trip_minutes) /\ ~BagIn(Enriched(r), df_clean))
    /\ BagCardinality(df_clean)
         <= Copies(df, {r \in BagToSet(df) : BothParsable(r)})
    /\ \A e \in BagToSet(df_clean) :
         /\ ~IsNull(e.tpep_pickup_datetime)
         /\ ~IsNull(e.tpep_dropoff_datetime)
         /\ ~IsNull(e.trip_minutes)

\* The transform has run over a bad pickup, a bad dropoff and a good row, all
\* with a valid fare and passenger count, and kept only the good one.
C6_Witness ==
  /\ pc = "aggregate"
  /\ \E r \in BagToSet(df) :
       /\ Unparsable(r.tpep_pickup_datetime)
       /\ Get(r.fare_amount) > 0 /\ Get(r.passenger_count) > 0
  /\ \E r \in BagToSet(df) :
       /\ Unparsable(r.tpep_dropoff_datetime)
       /\ Get(r.fare_amount) > 0 /\ Get(r.passenger_count) > 0
  /\ BagCardinality(df) = 3
  /\ BagCardinality(df_clean) = 1

RECURSIVE SumFare(_, _)
SumFare(B, S) ==
  IF S = {} THEN 0
  ELSE LET r == CHOOSE x \in S : TRUE
       IN  Get(r.fare_amount) * B[r] + SumFare(B, S \ {r})

\* C7: avg_fare of a row of agg_df is the mean of fare_amount over the rows of
\* df_clean of its date (avg_fare * trip_count = the sum of the fares), equal
\* to the fare itself when there is one row, and agg_df is what one partition
\* holding all of df_clean gives, however the rows were split.
C7_MeanFare ==
  Aggregated =>
    /\ \A i \in 1..Len(agg_df) :
         LET row == agg_df[i]
             S   == RowsOfDate(row.trip_date)
         IN  /\ ~IsNull(row.avg_fare)
             /\ Get(row.avg_fare).num * row.trip_count
                  = SumFare(df_clean, S) * Get(row.avg_fare).den
             /\ row.trip_count = 1 =>
                  \A e \in S : row.avg_fare = Val(Frac(Get(e.fare_amount), 1))
    /\ Range(agg_df) = GroupByAgg(<<df_clean>>)

\* Three trips of one date with fares 10, 20, 30: one row, count 3, mean 20.
C7_Witness ==
  /\ Aggregated
  /\ {Get(e.fare_amount) : e \in BagToSet(df_clean)} = {10, 20, 30}
  /\ Len(agg_df) = 1
  /\ agg_df[1].trip_date = DateFormat(Val([day |-> DaysFromCivil(2024, 1, 1), sod |-> 0]))
  /\ agg_df[1].trip_count = 3
  /\ agg_df[1].avg_fare = Val(Frac(20, 1))

\* C8: agg_df is in strictly descending trip_date order and holds exactly
\* the rows of the group-by.
C8_DescendingDates ==
  Aggregated =>
    /\ \A i \in 1..(Len(agg_df) - 1) :
         StrLess(Get(agg_df[i + 1].trip_date), Get(agg_df[i].trip_date))
    /\ Range(agg_df) = GroupByAgg(<<df_clean>>)
    /\ Len(agg_df) = Cardinality(GroupByAgg(<<df_clean>>))

\* Three dates in the output, the year 6024 first and 2024-01-01 last.
C8_Witness ==
  /\ Aggregated
  /\ Len(agg_df) = 3
  /\ Get(agg_df[1].trip_date)[1] = "6"
  /\ agg_df[3].trip_date = DateFormat(Val([day |-> DaysFromCivil(2024, 1, 1), sod |-> 0]))

\* C9: when a run has ended, in success or in failure, the session is stopped.
C9_SessionStopped == pc \in {"done", "failed"} => spark = "stopped"

\* C10: is_weekend is 1 exactly when the first character of trip_date, the
\* leading digit of the pickup year, is '6' or '7', and 0 otherwise.
C10_WeekendFromYearDigit ==
  Transformed =>
    \A e \in BagToSet(df_clean) :
      LET first == Get(e.trip_date)[1]
          year  == CivilFromDays(Get(e.tpep_pickup_datetime).day)[1]
      IN  /\ first = DigitChar(year \div 1000)
          /\ e.is_weekend = (IF first \in {"6", "7"} THEN Val(1) ELSE Val(0))

\* A Saturday trip flagged 0 next to a Tuesday trip of the year 6024 flagged 1.
C10_Witness ==
  /\ Transformed
  /\ \E e \in BagToSet(df_clean) :
       DayOfWeek(Get(e.tpep_pickup_datetime).day) = 6 /\ e.is_weekend = Val(0)
  /\ \E e \in BagToSet(df_clean) :
       DayOfWeek(Get(e.tpep_pickup_datetime).day) \in 1..5 /\ e.is_weekend = Val(1)

====
